---- MODULE Spec2Model ----
(***************************************************************************)
(* Model of download.py: one run of main() under the __main__ handler.     *)
(* Strings are sequences of one-character tokens, byte strings sequences   *)
(* of byte tokens.  Files of the staging and output directories are keyed  *)
(* by their name with the date tag left out ("bq.zip.part" stands for      *)
(* bq<tag>.zip.part): every path of a run carries the same tag.            *)
(***************************************************************************)
EXTENDS Integers, Sequences, FiniteSets, TLC

VARIABLES
    pc,             \* position in main()
    cli_date,       \* args.date: [given, s]
    now_utc,        \* the instant of the call, in hours since 2024-01-01T00 UTC
    date_tag,       \* the resolved tag
    cookies,        \* the snapshot file: "absent", "valid" or "invalid"
    staging,        \* the staging directory: name -> content
    output,         \* the output directory: name -> content
    output0,        \* the output directory as the run found it
    log_exists,     \* download_<tag>.log has been opened
    log_file,       \* exceptions written to the log file
    console,        \* exceptions written to stdout or stderr
    exit_code,      \* the exit status; Running until the process ends
    exc,            \* the exception that ended the run
    in_idx,         \* position in in_tried
    in_ok,
    place_idx,      \* position in the placement loop
    head_result,    \* outcome of the HEAD just issued
    calls,          \* requests issued, in order
    zip_served,     \* body of the archive GET, once it arrived whole
    in_served,      \* url and body of the standalone GET of the attempt under way
    in_failed,      \* standalone urls whose attempt failed
    extract_calls,  \* invocations of extract_members
    extracted       \* the dict extract_members returned: key -> file name

vars == <<pc, cli_date, now_utc, date_tag, cookies, staging, output,
          output0, log_exists, log_file, console, exit_code, exc,
          in_idx, in_ok, place_idx, head_result, calls, zip_served,
          in_served, in_failed, extract_calls, extracted>>

\* ------------------------------------------------------------------ bounds
MaxBody == 2
MaxMembers == 2
MaxStale == 1
MaxDateLen == 7
MaxEntries == 3
MaxHour == 19300

\* ------------------------------------------------------- generic helpers
SeqsUpTo(S, n) == UNION {[1..k -> S] : k \in 0..n}

Min(a, b) == IF a < b THEN a ELSE b

Take(s, n) == SubSeq(s, 1, Min(n, Len(s)))

startswith(s, p) == Len(s) >= Len(p) /\ SubSeq(s, 1, Len(p)) = p

endswith(s, p) == Len(s) >= Len(p) /\ SubSeq(s, Len(s) - Len(p) + 1, Len(s)) = p

\* a directory: the set of names present and the content of each
Exists(dir, n) == n \in DOMAIN dir

WriteFile_keep(dir, n, c) ==
    [m \in (DOMAIN dir) \cup {n} |-> IF m = n /\ n \notin DOMAIN dir THEN c ELSE dir[m]]

WriteFile(dir, n, c) == [m \in (DOMAIN dir) \cup {n} |-> IF m = n THEN c ELSE dir[m]]

Unlink(dir, n) == [m \in (DOMAIN dir) \ {n} |-> dir[m]]

\* ------------------------------------------------------- resolve_date_tag
AsciiDigits == {"0", "1", "2", "3", "4", "5", "6", "7", "8", "9"}

\* characters outside 0-9 for which str.isdigit() is true (ARABIC-INDIC
\* DIGIT THREE, SUPERSCRIPT TWO)
UnicodeDigits == {"u0663", "u00b2"}

DigitChars == <<"0", "1", "2", "3", "4", "5", "6", "7", "8", "9">>

isdigit(s) == Len(s) > 0 /\ \A k \in 1..Len(s) : s[k] \in AsciiDigits \cup UnicodeDigits

TwoDigits(n) == <<DigitChars[((n \div 10) % 10) + 1], DigitChars[(n % 10) + 1]>>

IsLeap(y) == (y % 4 = 0 /\ y % 100 # 0) \/ y % 400 = 0

DaysInMonth(y, m) ==
    IF m = 2 THEN (IF IsLeap(y) THEN 29 ELSE 28)
    ELSE IF m \in {4, 6, 9, 11} THEN 30 ELSE 31

DaysInYear(y) == IF IsLeap(y) THEN 366 ELSE 365

\* America/Los_Angeles in the tz database: the spans of daylight time, in
\* hours since 2024-01-01T00 UTC (second Sunday of March 10:00 UTC to first
\* Sunday of November 09:00 UTC)
DstSpans == {<<1666, 7377>>, <<10402, 16113>>, <<19138, 24849>>}

UtcOffset(t) == IF \E sp \in DstSpans : sp[1] <= t /\ t < sp[2] THEN -7 ELSE -8

now_local_naive(t) == [day |-> t \div 24, hour |-> t % 24]

\* datetime.now(tz=tz): the wall clock in Los Angeles, as the day number
\* since 2024-01-01 and the hour of the day
now_local(t) == [day |-> (t + UtcOffset(t)) \div 24, hour |-> (t + UtcOffset(t)) % 24]

\* datetime - timedelta(days=n): arithmetic on the wall clock, the tzinfo kept
MinusDays(w, n) == [day |-> w.day - n, hour |-> w.hour]

\* the civil date of day number n (0 is 2024-01-01)
RECURSIVE MonthOf(_, _, _)
MonthOf(y, m, n) ==
    IF n >= DaysInMonth(y, m) THEN MonthOf(y, m + 1, n - DaysInMonth(y, m))
    ELSE [y |-> y, m |-> m, d |-> n + 1]

RECURSIVE YearOf(_, _)
YearOf(y, n) ==
    IF n >= DaysInYear(y) THEN YearOf(y + 1, n - DaysInYear(y)) ELSE MonthOf(y, 1, n)

CivilFromDay(n) == YearOf(2024, n)

\* strftime("%y%m%d")
strftime(d) == TwoDigits(d.y % 100) \o TwoDigits(d.m) \o TwoDigits(d.d)

\* cli is [given |-> BOOLEAN, s |-> string]; given = FALSE is None.
\* "if cli_date:" is true of a non-empty string only.
resolve_date_tag(cli, now) ==
    IF cli.given /\ Len(cli.s) > 0
    THEN IF Len(cli.s) # 6 \/ ~isdigit(cli.s)
         THEN [raised |-> TRUE, tag |-> <<>>]
         ELSE [raised |-> FALSE, tag |-> cli.s]
    ELSE LET yday == MinusDays(now_local(now), 1)
         IN [raised |-> FALSE, tag |-> strftime(CivilFromDay(yday.day))]

\* ------------------------------------------------------- is_probably_html
\* bytes.lstrip() removes ASCII whitespace: space, \t, \n, \v, \f, \r
Whitespace == {" ", "HT", "LF", "VT", "FF", "CR"}

Byte == {"<", " ", "x"}

lstrip_none(s) == s

RECURSIVE lstrip(_)
lstrip(s) == IF Len(s) > 0 /\ s[1] \in Whitespace THEN lstrip(Tail(s)) ELSE s

is_probably_html(sample) ==
    LET s == lstrip(sample) IN startswith(s, <<"<">>) \/ startswith(s, <<"<", "!">>)

SniffLen == 512

\* ---------------------------------------------------------------- contents
\* A file's content: its bytes and, when the bytes are a readable archive,
\* the entries of its directory in order ([name, data]).
Bodies == SeqsUpTo(Byte, MaxBody)

RawFile(b) == [bytes |-> b, zip |-> FALSE, members |-> <<>>]

ZipFile(b, ms) == [bytes |-> b, zip |-> TRUE, members |-> ms]

\* content left behind by an earlier run
StaleContent == RawFile(<<"s">>)

N_bq == <<"b", "q", "1", ".", "t", "x", "t">>

N_BQ == <<"B", "Q", "2", ".", "T", "X", "T">>

N_as == <<"a", "s", "1", ".", "t", "x", "t">>

N_bqdat == <<"b", "q", "1", ".", "d", "a", "t">>

MemberNames == {N_bq, N_BQ, N_as, N_bqdat}

\* the data of the entry at position k of an archive
DataAt(k) == <<"m", DigitChars[k + 1]>>

\* the archives of up to n entries named from names
ArchivesOver(names, n) ==
    {[k \in 1..Len(ns) |-> [name |-> ns[k], data |-> DataAt(k)]] :
        ns \in SeqsUpTo(names, n)}

ArchivesUpTo(n) == ArchivesOver(MemberNames, n)

\* the entry names of the archives a whole run is given
MainNames == {N_bq, N_BQ, N_as}

Archives == ArchivesOver(MainNames, MaxMembers)

\* what a GET may deliver for the archive URL and for a standalone URL
\* (the bytes of a readable archive open with its signature, never with
\* whitespace or "<")
ZipBytes == {b \in Bodies : \A k \in 1..Len(b) : b[k] = "x"}

ZipResponses == {RawFile(b) : b \in Bodies} \cup {ZipFile(b, ms) : b \in ZipBytes, ms \in Archives}

InResponses == {RawFile(b) : b \in Bodies}

\* ------------------------------------------------------------ extraction
LowerChar(c) ==
    CASE c = "B" -> "b" [] c = "Q" -> "q" [] c = "A" -> "a" [] c = "S" -> "s"
      [] c = "T" -> "t" [] c = "X" -> "x" [] c = "D" -> "d" [] OTHER -> c

lower_none(s) == s

lower(s) == [k \in 1..Len(s) |-> LowerChar(s[k])]

DotTxt == <<".", "t", "x", "t">>

Matches(n, prefix) == startswith(lower(n), prefix) /\ endswith(lower(n), DotTxt)

\* next((n for n in names if ...), None): position of the first match, 0 if none
FirstMatch(ms, prefix) ==
    IF \E k \in 1..Len(ms) : Matches(ms[k].name, prefix)
    THEN CHOOSE k \in 1..Len(ms) :
            /\ Matches(ms[k].name, prefix)
            /\ \A j \in 1..(k - 1) : ~Matches(ms[j].name, prefix)
    ELSE 0

\* zf.open(name): ZipFile.getinfo answers with the last entry of that name
ZfRead(ms, name) ==
    LET k == CHOOSE k \in 1..Len(ms) :
                /\ ms[k].name = name
                /\ \A j \in (k + 1)..Len(ms) : ms[j].name # name
    IN ms[k].data

WantedPrefixes == <<<<"b", "q">>, <<"a", "s">>>>

\* the keys of wanted_prefixes, in the order of the prefixes
WantedKeys == <<"bq", "as">>

\* the empty dict
NoPaths == [key \in {} |-> ""]

\* FileNotFoundError(f"Could not find {prefix}*.txt in ZIP ...")
NotFound(prefix) ==
    IF prefix = <<"b", "q">> THEN "FileNotFoundError:bq" ELSE "FileNotFoundError:as"

TargetName(prefix) == IF prefix = <<"b", "q">> THEN "bq.txt" ELSE "as.txt"

\* extract_members: the loop over wanted_prefixes from position k on; the
\* result is the staging directory, the exception raised ("none" if none)
\* and, when none was raised, the dict returned; out is the dict built so far
RECURSIVE ExtractFrom_skip(_, _, _, _)
ExtractFrom_skip(ms, dir, out, k) ==
    IF k > Len(WantedPrefixes) THEN [dir |-> dir, raised |-> "none", out |-> out]
    ELSE LET prefix == WantedPrefixes[k]
             member == FirstMatch(ms, prefix)
         IN IF member = 0
            THEN ExtractFrom_skip(ms, dir,
                     (WantedKeys[k] :> TargetName(prefix)) @@ out, k + 1)
            ELSE ExtractFrom_skip(ms,
                     WriteFile(dir, TargetName(prefix), RawFile(ZfRead(ms, ms[member].name))),
                     (WantedKeys[k] :> TargetName(prefix)) @@ out,
                     k + 1)

RECURSIVE ExtractFrom(_, _, _, _)
ExtractFrom(ms, dir, out, k) ==
    IF k > Len(WantedPrefixes) THEN [dir |-> dir, raised |-> "none", out |-> out]
    ELSE LET prefix == WantedPrefixes[k]
             member == FirstMatch(ms, prefix)
         IN IF member = 0
            THEN [dir |-> dir, raised |-> NotFound(prefix), out |-> NoPaths]
            ELSE ExtractFrom(ms,
                     WriteFile(dir, TargetName(prefix), RawFile(ZfRead(ms, ms[member].name))),
                     (WantedKeys[k] :> TargetName(prefix)) @@ out,
                     k + 1)

extract_members(zipc, dir) ==
    IF ~zipc.zip THEN [dir |-> dir, raised |-> "BadZipFile", out |-> NoPaths]
    ELSE ExtractFrom(zipc.members, dir, NoPaths, 1)

\* ---------------------------------------------------------------- download_to
\* What the server and the transport do to one GET: the request fails before
\* a byte is written (connection error, raise_for_status), the stream breaks
\* after part of the body was written, or the whole body arrives.
Outcomes(responses) ==
    {[kind |-> "refused", content |-> RawFile(<<>>)]}
    \cup {[kind |-> "broken", content |-> RawFile(b)] : b \in Bodies}
    \cup {[kind |-> "complete", content |-> c] : c \in responses}

download_to(dir, temp_path, o) ==
    IF o.kind = "refused" THEN [dir |-> dir, raised |-> "HTTPError"]
    ELSE IF o.kind = "broken"
    THEN [dir |-> WriteFile(dir, temp_path, o.content), raised |-> "ConnectionError"]
    ELSE LET written == WriteFile(dir, temp_path, o.content)
             head == Take(written[temp_path].bytes, SniffLen)
         IN [dir |-> written,
             raised |-> IF is_probably_html(head) THEN "RuntimeError:html" ELSE "none"]

Replace_copy(dir, src, dst) == WriteFile(dir, dst, dir[src])

\* Path.replace
Replace(dir, src, dst) == WriteFile(Unlink(dir, src), dst, dir[src])

\* ------------------------------------------------------------------ config
min_zip_bytes == 2

min_in_bytes == 2

in_tried == <<"in_txt_lower", "in_txt_upper">>

StagingNames == {"bq.zip.part", "bq.zip", "bq.txt", "as.txt", "in.txt.part", "in.txt"}

OutputNames == {"bq.txt", "as.txt", "in.txt"}

PlaceList == <<"bq.txt", "as.txt", "in.txt">>

Running == -1

\* a directory holding the files S of earlier runs
PriorDir(S) == [m \in S |-> StaleContent]

N_valid == <<"2", "5", "0", "9", "0", "3">>

MainDates ==
    {[given |-> FALSE, s |-> <<>>], [given |-> TRUE, s |-> <<>>],
     [given |-> TRUE, s |-> N_valid],
     [given |-> TRUE, s |-> <<"2", "5", "0", "9", "0">>]}

\* 2025-09-04 12:00 in Los Angeles
MainNow == 612 * 24 + 19

\* the locals of main() and the process before the first statement
Fresh ==
    /\ log_file = {}
    /\ console = {}
    /\ exit_code = Running
    /\ exc = "none"
    /\ in_idx = 1
    /\ in_ok = FALSE
    /\ place_idx = 1
    /\ head_result = "none"
    /\ in_served = <<>>
    /\ in_failed = {}
    /\ extract_calls = 0
    /\ extracted = NoPaths

Init ==
    /\ pc = "start"
    /\ cli_date \in MainDates
    /\ now_utc = MainNow
    /\ date_tag = <<>>
    /\ cookies \in {"absent", "valid", "invalid"}
    /\ \E S \in SUBSET StagingNames, O \in SUBSET OutputNames :
        /\ Cardinality(S) + Cardinality(O) <= MaxStale
        /\ staging = PriorDir(S)
        /\ output = PriorDir(O)
    /\ output0 = output
    /\ log_exists = FALSE
    /\ calls = <<>>
    /\ zip_served = <<>>
    /\ Fresh

\* ----------------------------------------------------------------- actions
Inputs == <<cli_date, now_utc, cookies, output0>>

Fatal_exit0(e, con) ==
    /\ pc' = "done"
    /\ exit_code' = 0
    /\ exc' = e
    /\ console' = con \cup {e}

\* __main__: "except Exception" prints the exception and its trace to stderr
\* and exits with 1; con is what the console held when the exception rose
Fatal(e, con) ==
    /\ pc' = "done"
    /\ exit_code' = 1
    /\ exc' = e
    /\ console' = con \cup {e}

\* line 144
ResolveDate ==
    /\ pc = "start"
    /\ LET r == resolve_date_tag(cli_date, now_utc)
       IN IF r.raised
          THEN Fatal("ValueError", console) /\ UNCHANGED date_tag
          ELSE /\ date_tag' = r.tag
               /\ pc' = "setup"
               /\ UNCHANGED <<exit_code, exc, console>>
    /\ UNCHANGED <<Inputs, staging, output, log_exists, log_file, in_idx, in_ok,
                   place_idx, head_result, calls, zip_served, in_served,
                   in_failed, extract_calls, extracted>>

\* lines 146-166: configuration, directories, logger
Setup ==
    /\ pc = "setup"
    /\ log_exists' = TRUE
    /\ pc' = "session"
    /\ UNCHANGED <<Inputs, date_tag, staging, output, log_file, console, exit_code,
                   exc, in_idx, in_ok, place_idx, head_result, calls, zip_served,
                   in_served, in_failed, extract_calls, extracted>>

BuildSession_raise ==
    /\ pc = "session"
    /\ IF cookies = "valid"
       THEN /\ pc' = "zip_head"
            /\ UNCHANGED <<exit_code, exc, console>>
       ELSE Fatal("JSONDecodeError", console)
    /\ UNCHANGED <<Inputs, date_tag, staging, output, log_exists, log_file, in_idx,
                   in_ok, place_idx, head_result, calls, zip_served, in_served,
                   in_failed, extract_calls, extracted>>

\* lines 168-182: sys.exit(2) raises SystemExit, which "except Exception"
\* lets through; json.load raises on a snapshot that is not JSON
BuildSession ==
    /\ pc = "session"
    /\ IF cookies = "absent"
       THEN /\ pc' = "done"
            /\ exit_code' = 2
            /\ exc' = "SystemExit"
            /\ UNCHANGED console
       ELSE IF cookies = "invalid"
       THEN Fatal("JSONDecodeError", console)
       ELSE /\ pc' = "zip_head"
            /\ UNCHANGED <<exit_code, exc, console>>
    /\ UNCHANGED <<Inputs, date_tag, staging, output, log_exists, log_file, in_idx,
                   in_ok, place_idx, head_result, calls, zip_served, in_served,
                   in_failed, extract_calls, extracted>>

HeadResults == {"200", "404", "raise"}

\* head_ok: the exception of a failed HEAD goes to the logger
head_ok(r) == r = "200"

HeadLogged(r) == IF r = "raise" THEN {"HeadError"} ELSE {}

HeadZip_fatal ==
    /\ pc = "zip_head"
    /\ calls' = Append(calls, <<"HEAD", "bq_zip">>)
    /\ \E r \in HeadResults :
        /\ head_result' = r
        /\ log_file' = log_file \cup HeadLogged(r)
        /\ IF head_ok(r)
           THEN /\ pc' = "zip_get"
                /\ console' = console \cup HeadLogged(r)
                /\ UNCHANGED <<exit_code, exc>>
           ELSE Fatal("HeadError", console)
    /\ UNCHANGED <<Inputs, date_tag, staging, output, log_exists,
                   in_idx, in_ok, place_idx, zip_served, in_served, in_failed,
                   extract_calls, extracted>>

\* lines 188-189
HeadZip ==
    /\ pc = "zip_head"
    /\ \E r \in HeadResults :
        /\ head_result' = r
        /\ log_file' = log_file \cup HeadLogged(r)
        /\ console' = console \cup HeadLogged(r)
    /\ calls' = Append(calls, <<"HEAD", "bq_zip">>)
    /\ pc' = "zip_get"
    /\ UNCHANGED <<Inputs, date_tag, staging, output, log_exists, exit_code, exc,
                   in_idx, in_ok, place_idx, zip_served, in_served, in_failed,
                   extract_calls, extracted>>

\* line 192
DownloadZip ==
    /\ pc = "zip_get"
    /\ calls' = Append(calls, <<"GET", "bq_zip">>)
    /\ head_result' = "none"
    /\ \E o \in Outcomes(ZipResponses) :
        LET r == download_to(staging, "bq.zip.part", o)
        IN /\ staging' = r.dir
           /\ zip_served' = IF o.kind = "complete" THEN <<o.content>> ELSE <<>>
           /\ IF r.raised # "none"
              THEN Fatal(r.raised, console)
              ELSE /\ pc' = "zip_size"
                   /\ UNCHANGED <<exit_code, exc, console>>
    /\ UNCHANGED <<Inputs, date_tag, output, log_exists, log_file, in_idx, in_ok,
                   place_idx, in_served, in_failed, extract_calls, extracted>>

\* stat().st_size
Size(dir, n) == Len(dir[n].bytes)

ValidateZip_nocheck ==
    /\ pc = "zip_size"
    /\ staging' = Replace(staging, "bq.zip.part", "bq.zip")
    /\ pc' = "extract"
    /\ UNCHANGED <<Inputs, date_tag, output, log_exists, log_file, in_idx, in_ok,
                   place_idx, head_result, calls, zip_served, in_served,
                   in_failed, extract_calls, extracted, exit_code, exc, console>>

\* lines 193-197
ValidateZip ==
    /\ pc = "zip_size"
    /\ IF Size(staging, "bq.zip.part") < min_zip_bytes
       THEN Fatal("RuntimeError:zip too small", console) /\ UNCHANGED staging
       ELSE /\ staging' = Replace(staging, "bq.zip.part", "bq.zip")
            /\ pc' = "extract"
            /\ UNCHANGED <<exit_code, exc, console>>
    /\ UNCHANGED <<Inputs, date_tag, output, log_exists, log_file, in_idx, in_ok,
                   place_idx, head_result, calls, zip_served, in_served,
                   in_failed, extract_calls, extracted>>

Extract_early ==
    /\ pc = "extract"
    /\ extract_calls' = extract_calls + 1
    /\ LET r == extract_members(staging["bq.zip"], output)
       IN /\ output' = r.dir
          /\ extracted' = r.out
          /\ IF r.raised # "none"
             THEN Fatal(r.raised, console)
             ELSE /\ pc' = "in_head"
                  /\ UNCHANGED <<exit_code, exc, console>>
    /\ UNCHANGED <<Inputs, date_tag, staging, log_exists, log_file, in_idx, in_ok,
                   place_idx, head_result, calls, zip_served, in_served, in_failed>>

\* lines 200-208
Extract ==
    /\ pc = "extract"
    /\ extract_calls' = extract_calls + 1
    /\ \E r \in {extract_members(staging["bq.zip"], staging)} :
          /\ staging' = r.dir
          /\ extracted' = r.out
          /\ IF r.raised # "none"
             THEN Fatal(r.raised, console)
             ELSE /\ pc' = "in_head"
                  /\ UNCHANGED <<exit_code, exc, console>>
    /\ UNCHANGED <<Inputs, date_tag, output, log_exists, log_file, in_idx, in_ok,
                   place_idx, head_result, calls, zip_served, in_served, in_failed>>

\* lines 217-220
HeadIn ==
    /\ pc = "in_head"
    /\ \E r \in HeadResults :
        /\ head_result' = r
        /\ log_file' = log_file \cup HeadLogged(r)
        /\ console' = console \cup HeadLogged(r)
    /\ calls' = Append(calls, <<"HEAD", in_tried[in_idx]>>)
    /\ pc' = "in_get"
    /\ UNCHANGED <<Inputs, date_tag, staging, output, log_exists, exit_code, exc,
                   in_idx, in_ok, place_idx, zip_served, in_served, in_failed,
                   extract_calls, extracted>>

CleanTemp_keep(dir) == dir

\* lines 229-232: the handler of one attempt
CleanTemp(dir) == IF Exists(dir, "in.txt.part") THEN Unlink(dir, "in.txt.part") ELSE dir

AttemptFailed_retry(e, dir) ==
    /\ log_file' = log_file \cup {e}
    /\ staging' = CleanTemp(dir)
    /\ in_failed' = in_failed \cup {in_tried[in_idx]}
    /\ in_served' = <<>>
    /\ pc' = "in_head"
    /\ console' = console \cup {e}
    /\ UNCHANGED <<exit_code, exc, in_idx>>

\* lines 229-235: the attempt on in_tried[in_idx] raised e with the staging
\* directory as dir; the loop goes on to the next url or ends without success
AttemptFailed(e, dir) ==
    /\ log_file' = log_file \cup {e}
    /\ staging' = CleanTemp(dir)
    /\ in_failed' = in_failed \cup {in_tried[in_idx]}
    /\ in_served' = <<>>
    /\ IF in_idx < Len(in_tried)
       THEN /\ in_idx' = in_idx + 1
            /\ pc' = "in_head"
            /\ console' = console \cup {e}
            /\ UNCHANGED <<exit_code, exc>>
       ELSE /\ Fatal("RuntimeError:both failed", console \cup {e})
            /\ UNCHANGED in_idx

\* line 221
DownloadIn ==
    /\ pc = "in_get"
    /\ calls' = Append(calls, <<"GET", in_tried[in_idx]>>)
    /\ head_result' = "none"
    /\ \E o \in Outcomes(InResponses) :
        LET r == download_to(staging, "in.txt.part", o)
        IN IF r.raised # "none"
           THEN AttemptFailed(r.raised, r.dir)
           ELSE /\ staging' = r.dir
                /\ in_served' = <<[url |-> in_tried[in_idx], content |-> o.content]>>
                /\ pc' = "in_size"
                /\ UNCHANGED <<exit_code, exc, console, log_file, in_idx, in_failed>>
    /\ UNCHANGED <<Inputs, date_tag, output, log_exists, in_ok, place_idx,
                   zip_served, extract_calls, extracted>>

ValidateIn_strict ==
    /\ pc = "in_size"
    /\ IF Size(staging, "in.txt.part") <= min_in_bytes
       THEN AttemptFailed("RuntimeError:in too small", staging)
            /\ UNCHANGED in_ok
       ELSE /\ staging' = Replace(staging, "in.txt.part", "in.txt")
            /\ in_ok' = TRUE
            /\ pc' = "place"
            /\ UNCHANGED <<exit_code, exc, console, log_file, in_idx, in_failed, in_served>>
    /\ UNCHANGED <<Inputs, date_tag, output, log_exists, place_idx, head_result,
                   calls, zip_served, extract_calls, extracted>>

\* lines 222-228
ValidateIn ==
    /\ pc = "in_size"
    /\ IF Size(staging, "in.txt.part") < min_in_bytes
       THEN AttemptFailed("RuntimeError:in too small", staging)
            /\ UNCHANGED in_ok
       ELSE /\ staging' = Replace(staging, "in.txt.part", "in.txt")
            /\ in_ok' = TRUE
            /\ pc' = "place"
            /\ UNCHANGED <<exit_code, exc, console, log_file, in_idx, in_failed, in_served>>
    /\ UNCHANGED <<Inputs, date_tag, output, log_exists, place_idx, head_result,
                   calls, zip_served, extract_calls, extracted>>

\* what the file system does to one iteration of the placement loop: both
\* calls succeed, dst.unlink() raises, or src.replace(dst) raises
PlaceOutcomes(dst) ==
    {"ok", "replace raises"} \cup (IF Exists(output, dst) THEN {"unlink raises"} ELSE {})

\* lines 207-208, 212, 244: the file the k-th iteration moves
PlaceSource(k) == IF k <= Len(WantedKeys) THEN extracted[WantedKeys[k]] ELSE "in.txt"

\* lines 244-248, one iteration
Place ==
    /\ pc = "place"
    /\ LET n == PlaceSource(place_idx)
           unlinked == IF Exists(output, n) THEN Unlink(output, n) ELSE output
       IN \E o \in PlaceOutcomes(n) :
            IF o = "unlink raises"
            THEN /\ Fatal("OSError", console)
                 /\ UNCHANGED <<staging, output, place_idx>>
            ELSE IF o = "replace raises"
            THEN /\ Fatal("OSError", console)
                 /\ output' = unlinked
                 /\ UNCHANGED <<staging, place_idx>>
            ELSE /\ output' = WriteFile(unlinked, n, staging[n])
                 /\ staging' = Unlink(staging, n)
                 /\ place_idx' = place_idx + 1
                 /\ pc' = IF place_idx = Len(PlaceList) THEN "finish" ELSE "place"
                 /\ UNCHANGED <<exit_code, exc, console>>
    /\ UNCHANGED <<Inputs, date_tag, log_exists, log_file, in_idx, in_ok,
                   head_result, calls, zip_served, in_served, in_failed, extract_calls, extracted>>

\* line 250 and the return of main(): the process ends with status 0
Complete ==
    /\ pc = "finish"
    /\ pc' = "done"
    /\ exit_code' = 0
    /\ UNCHANGED <<Inputs, date_tag, staging, output, log_exists, log_file, console,
                   exc, in_idx, in_ok, place_idx, head_result, calls, zip_served,
                   in_served, in_failed, extract_calls, extracted>>

Next ==
    \/ ResolveDate
    \/ Setup
    \/ BuildSession
    \/ HeadZip
    \/ DownloadZip
    \/ ValidateZip
    \/ Extract
    \/ HeadIn
    \/ DownloadIn
    \/ ValidateIn
    \/ Place
    \/ Complete

Spec == Init /\ [][Next]_vars

\* ------------------------------------------- resolve_date_tag on its own
DateChars == {"0", "9", "a", "u0663"}

\* 2025-09-04 12:00, 2024-03-01 00:00 and 2026-01-01 23:00 in Los Angeles
DateInstants == {612 * 24 + 19, 60 * 24 + 8, 732 * 24 + 7}

InitDate ==
    /\ pc = "start"
    /\ cli_date \in {[given |-> FALSE, s |-> <<>>]}
                    \cup {[given |-> TRUE, s |-> t] : t \in SeqsUpTo(DateChars, MaxDateLen)}
    /\ now_utc \in DateInstants
    /\ date_tag = <<>>
    /\ cookies = "valid"
    /\ staging = PriorDir({})
    /\ output = PriorDir({})
    /\ output0 = output
    /\ log_exists = FALSE
    /\ calls = <<>>
    /\ zip_served = <<>>
    /\ Fresh

NextDate == ResolveDate

SpecDate == InitDate /\ [][NextDate]_vars

\* -------------------------------------- resolve_date_tag with no override
\* every hour from 2024-01-03 to MaxHour (2026-03-15): a leap day, two year
\* ends and both changes of the clock of each year
InitClock ==
    /\ pc = "start"
    /\ cli_date = [given |-> FALSE, s |-> <<>>]
    /\ now_utc \in 48..MaxHour
    /\ date_tag = <<>>
    /\ cookies = "valid"
    /\ staging = PriorDir({})
    /\ output = PriorDir({})
    /\ output0 = output
    /\ log_exists = FALSE
    /\ calls = <<>>
    /\ zip_served = <<>>
    /\ Fresh

NextClock == ResolveDate

SpecClock == InitClock /\ [][NextClock]_vars

\* ---------------------------------------------- extract_members on its own
\* main() at line 200: the archive has been retrieved, validated and renamed
InitExtract ==
    /\ pc = "extract"
    /\ cli_date = [given |-> TRUE, s |-> N_valid]
    /\ now_utc = MainNow
    /\ date_tag = N_valid
    /\ cookies = "valid"
    /\ \E S \in SUBSET {"bq.txt", "as.txt"},
          z \in {RawFile(<<"x", "x">>)}
                \cup {ZipFile(<<"x", "x">>, ms) : ms \in ArchivesUpTo(MaxEntries)} :
        /\ staging = WriteFile(PriorDir(S), "bq.zip", z)
        /\ zip_served = <<z>>
    /\ output = PriorDir({})
    /\ output0 = output
    /\ log_exists = TRUE
    /\ calls = <<<<"HEAD", "bq_zip">>, <<"GET", "bq_zip">>>>
    /\ Fresh

NextExtract == Extract

SpecExtract == InitExtract /\ [][NextExtract]_vars

\* ------------------------------------------- the content sniff on its own
MaxSample == 3

SniffBytes == Whitespace \cup {"<", "!", "x"}

\* download_to is about to be called for the primary URL
InitSniff ==
    /\ pc = "sniff"
    /\ cli_date = [given |-> TRUE, s |-> N_valid]
    /\ now_utc = MainNow
    /\ date_tag = N_valid
    /\ cookies = "valid"
    /\ staging = PriorDir({})
    /\ output = PriorDir({})
    /\ output0 = output
    /\ log_exists = TRUE
    /\ calls = <<>>
    /\ zip_served = <<>>
    /\ Fresh

\* lines 90-102 with a server that answers with the whole body b: the body is
\* written, its first 512 bytes are read back and classified
Sniff ==
    /\ pc = "sniff"
    /\ \E b \in SeqsUpTo(SniffBytes, MaxSample) :
        LET r == download_to(staging, "in.txt.part",
                             [kind |-> "complete", content |-> RawFile(b)])
        IN /\ staging' = r.dir
           /\ exc' = r.raised
           /\ in_served' = <<[url |-> in_tried[in_idx], content |-> RawFile(b)]>>
    /\ calls' = Append(calls, <<"GET", in_tried[in_idx]>>)
    /\ pc' = "sniffed"
    /\ UNCHANGED <<Inputs, date_tag, output, log_exists, log_file, console, exit_code,
                   in_idx, in_ok, place_idx, head_result, zip_served, in_failed,
                   extract_calls, extracted>>

NextSniff == Sniff

SpecSniff == InitSniff /\ [][NextSniff]_vars

\* ------------------------------------------------------------------ claims
Range(f) == {f[k] : k \in DOMAIN f}

\* the outputs the placement loop has moved so far
Promoted == {PlaceList[k] : k \in 1..(place_idx - 1)}

\* C1: in every terminal state the run has moved either none or all three
\* of bq<tag>.txt, as<tag>.txt, in<tag>.txt into the output directory.
C1_AllOrNothing ==
    pc = "done" => Cardinality(Promoted) \in {0, Cardinality(OutputNames)}

Failures ==
    {"ValueError", "JSONDecodeError", "HTTPError", "ConnectionError", "RuntimeError:html",
     "RuntimeError:zip too small", "BadZipFile", "FileNotFoundError:bq",
     "FileNotFoundError:as",
     "RuntimeError:both failed", "OSError"}

HoldsMemberOf(file, ms, prefix) ==
    \E k \in 1..Len(ms) : Matches(ms[k].name, prefix) /\ file.bytes = ms[k].data

\* C3: after a run that exits with 0, whatever the directories held before,
\* the three output files exist; bq<tag>.txt and as<tag>.txt hold the bytes
\* of a matching entry of the archive this run retrieved and in<tag>.txt the
\* body of the standalone attempt that succeeded.
C3_SuccessfulRunOutputs ==
    exit_code = 0 =>
        /\ OutputNames \subseteq DOMAIN output
        /\ Len(zip_served) = 1 /\ Len(in_served) = 1
        /\ HoldsMemberOf(output["bq.txt"], zip_served[1].members, <<"b", "q">>)
        /\ HoldsMemberOf(output["as.txt"], zip_served[1].members, <<"a", "s">>)
        /\ output["in.txt"] = in_served[1].content

C3_Witness ==
    /\ exit_code = 0
    /\ DOMAIN output0 # {}
    /\ \A n \in DOMAIN output0 : output[n] # output0[n]

\* C4: once both standalone attempts have failed, the run has ended with the
\* "both URLs failed" error and status 1, in<tag>.txt.part does not exist,
\* and no in<tag>.txt of this run exists in staging or in the output
\* directory (one left by an earlier run is as it was).
C4_FallbackExhaustion ==
    in_failed = Range(in_tried) =>
        /\ pc = "done" /\ exit_code = 1 /\ exc = "RuntimeError:both failed"
        /\ ~Exists(staging, "in.txt.part")
        /\ Exists(staging, "in.txt") => staging["in.txt"] = StaleContent
        /\ Exists(output, "in.txt") =>
              Exists(output0, "in.txt") /\ output["in.txt"] = output0["in.txt"]

C4_Witness ==
    /\ in_failed = Range(in_tried)
    /\ pc = "done"
    /\ {"ConnectionError", "RuntimeError:in too small"} \subseteq log_file

PartNames == {"bq.zip.part", "in.txt.part"}

\* C6: at the end of every run no temp file this run wrote is left in
\* staging: neither bq<tag>.zip.part nor in<tag>.txt.part exists, unless it
\* is a file of an earlier run the run never touched.
C6_NoPartOutlivesRun ==
    pc = "done" =>
        \A n \in PartNames : Exists(staging, n) => staging[n] = StaleContent

\* the archive GET was issued and raised, or delivered markup, or delivered
\* fewer than min_zip_bytes bytes
ArchiveFailed ==
    /\ <<"GET", "bq_zip">> \in Range(calls)
    /\ \/ zip_served = <<>>
       \/ /\ zip_served # <<>>
          /\ \/ is_probably_html(Take(zip_served[1].bytes, SniffLen))
             \/ Len(zip_served[1].bytes) < min_zip_bytes

\* C7: when the archive retrieve failed (raised, markup, too small), the run
\* exits with 1 (at the latest after the size check), extract_members is not
\* invoked, no request for a standalone URL is issued and the output
\* directory is as the run found it.
C7_ArchiveFailureAborts ==
    ArchiveFailed =>
        /\ pc = "zip_size" \/ (pc = "done" /\ exit_code = 1)
        /\ extract_calls = 0
        /\ \A k \in 1..Len(calls) : calls[k][2] = "bq_zip"
        /\ output = output0

C7_Witness ==
    /\ ArchiveFailed
    /\ pc = "done"
    /\ exc = "RuntimeError:zip too small"

\* C8: whenever a run exits with 1, the exception that ended it has been
\* written to the log file download_<tag>.log and to the console.
C8_FatalLoggedToFile ==
    exit_code = 1 => (log_exists /\ exc \in log_file /\ exc \in console)

SixAsciiDigits(s) == Len(s) = 6 /\ \A k \in 1..6 : s[k] \in AsciiDigits

\* C9: resolve_date_tag of a supplied string s returns s when s is six
\* digits 0-9 and raises the format error for every other supplied string.
C9_SuppliedDate ==
    (pc # "start" /\ cli_date.given) =>
        IF SixAsciiDigits(cli_date.s)
        THEN exc = "none" /\ date_tag = cli_date.s
        ELSE exc = "ValueError" /\ date_tag = <<>>

MatchCount(ms, prefix) == Cardinality({k \in 1..Len(ms) : Matches(ms[k].name, prefix)})

\* C10: when more than one entry of the archive matches a requested prefix,
\* extract_members fails and writes no file for that prefix.
C10_MultipleMatchesFail ==
    \A k \in 1..Len(WantedPrefixes) :
        (extract_calls = 1 /\ zip_served[1].zip
            /\ MatchCount(zip_served[1].members, WantedPrefixes[k]) > 1) =>
            /\ exc # "none"
            /\ Exists(staging, TargetName(WantedPrefixes[k])) =>
                  staging[TargetName(WantedPrefixes[k])] = StaleContent

\* the day number (0 is 2024-01-01) of the civil day in Los Angeles at t
LocalDay(t) == (t + UtcOffset(t)) \div 24

DigitVal(c) == CHOOSE v \in 0..9 : DigitChars[v + 1] = c

CumDays == <<0, 31, 59, 90, 120, 151, 181, 212, 243, 273, 304, 334>>

\* the day number of the civil day a tag YYMMDD of this century names
DayNumberOfTag(tag) ==
    LET y == 2000 + 10 * DigitVal(tag[1]) + DigitVal(tag[2])
        m == 10 * DigitVal(tag[3]) + DigitVal(tag[4])
        d == 10 * DigitVal(tag[5]) + DigitVal(tag[6])
    IN (y - 2024) * 365 + Cardinality({z \in 2024..(y - 1) : IsLeap(z)})
       + CumDays[m] + (IF m > 2 /\ IsLeap(y) THEN 1 ELSE 0) + d - 1

\* C15: with no override resolve_date_tag returns the tag of the civil day
\* before the current day in America/Los_Angeles; an instant up to 25 hours
\* later gives the same tag when it lies in the same local day and the tag
\* of the next calendar day when it lies in the next local day.
C15_YesterdayInLosAngeles ==
    (pc # "start" /\ ~cli_date.given) =>
        /\ exc = "none"
        /\ Len(date_tag) = 6
        /\ DayNumberOfTag(date_tag) = LocalDay(now_utc) - 1
        /\ \A k \in 1..25 :
            LET t2 == now_utc + k
                tag2 == resolve_date_tag(cli_date, t2).tag
            IN /\ LocalDay(t2) = LocalDay(now_utc) => tag2 = date_tag
               /\ LocalDay(t2) = LocalDay(now_utc) + 1 =>
                     DayNumberOfTag(tag2) = DayNumberOfTag(date_tag) + 1

\* the run is on 2026-01-01 in Los Angeles and on 2026-01-02 in UTC
C15_Witness ==
    /\ pc = "setup" /\ ~cli_date.given
    /\ date_tag = <<"2", "5", "1", "2", "3", "1">>
    /\ now_utc \div 24 = 732

\* ------------------------------------------------------------ archive members
\* the upper-case form of a letter of a prefix or of the extension
UpperOf(c) ==
    CASE c = "b" -> "B" [] c = "q" -> "Q" [] c = "a" -> "A" [] c = "s" -> "S"
      [] c = "t" -> "T" [] c = "x" -> "X" [] OTHER -> c

SameLetter(c, l) == c = l \/ c = UpperOf(l)

\* the member name begins with the prefix and ends in .txt, letter case ignored
NamedFor(n, prefix) ==
    /\ Len(n) >= Len(prefix)
    /\ \A k \in 1..Len(prefix) : SameLetter(n[k], prefix[k])
    /\ Len(n) >= Len(DotTxt)
    /\ \A k \in 1..Len(DotTxt) : SameLetter(n[Len(n) - Len(DotTxt) + k], DotTxt[k])

EntriesFor(ms, prefix) == {k \in 1..Len(ms) : NamedFor(ms[k].name, prefix)}

\* extract_members ran on a readable archive
ExtractedArchive == extract_calls = 1 /\ zip_served # <<>> /\ zip_served[1].zip

\* C11: when the archive holds no member for a requested prefix, the run ends
\* with exit code 1 on a not-found error that names a prefix without member,
\* no request for a standalone URL is issued and nothing is moved to the
\* output directory, whether or not the other prefix was extracted before.
C11_MissingMemberAborts ==
    (/\ ExtractedArchive
     /\ \E k \in 1..Len(WantedPrefixes) :
            EntriesFor(zip_served[1].members, WantedPrefixes[k]) = {}) =>
        /\ pc = "done"
        /\ exit_code = 1
        /\ \E k \in 1..Len(WantedPrefixes) :
              /\ EntriesFor(zip_served[1].members, WantedPrefixes[k]) = {}
              /\ exc = (IF k = 1 THEN "FileNotFoundError:bq" ELSE "FileNotFoundError:as")
        /\ \A k \in 1..Len(calls) : calls[k][2] = "bq_zip"
        /\ output = output0

\* the second prefix has no member and the first one was extracted
C11_Witness ==
    /\ ExtractedArchive
    /\ exc = "FileNotFoundError:as"
    /\ exit_code = 1
    /\ Exists(staging, "bq.txt")
    /\ EntriesFor(zip_served[1].members, WantedPrefixes[1]) # {}
    /\ staging["bq.txt"].bytes = zip_served[1].members[1].data

\* <destination>/<prefix><dateTag>.txt, for the k-th prefix
ClaimTarget == <<"bq.txt", "as.txt">>

ProbeFailed == head_result \in {"404", "raise"}

\* C13: a failed probe is advisory: the run is not terminated by it, the GET
\* of the same URL is the step that is enabled and it is the next request
\* issued; the probe neither aborts nor moves on to the fallback URL.
C13_ProbeAdvisory ==
    /\ [](ProbeFailed =>
            /\ exit_code = Running
            /\ pc \in {"zip_get", "in_get"}
            /\ calls # <<>>
            /\ calls[Len(calls)][1] = "HEAD"
            /\ ENABLED (DownloadZip \/ DownloadIn))
    /\ [][ProbeFailed =>
            /\ calls' = Append(calls, <<"GET", calls[Len(calls)][2]>>)
            /\ in_idx' = in_idx \/ in_tried[in_idx] \in in_failed']_vars

\* a run whose probe raised went on with the primary URL only and succeeded
C13_Witness ==
    /\ "HeadError" \in log_file
    /\ pc = "done"
    /\ exit_code = 0
    /\ in_failed = {}
    /\ Len(calls) = 4

\* ------------------------------------------------------ content classification
AsciiWhitespace == {" ", "HT", "LF", "VT", "FF", "CR"}

\* b, after its leading whitespace bytes, starts with '<'
MarkupAfterWhitespace(b) ==
    \E k \in 1..Len(b) : b[k] = "<" /\ \A j \in 1..(k - 1) : b[j] \in AsciiWhitespace

\* C14: is_probably_html(b) is true exactly when b, after removing leading
\* whitespace bytes, starts with '<'; it is false for every other sequence,
\* the empty one and those of whitespace only included.
C14_ContentClassification ==
    pc = "sniffed" =>
        LET b == in_served[1].content.bytes
        IN /\ staging["in.txt.part"].bytes = b
           /\ (exc = "RuntimeError:html") <=> MarkupAfterWhitespace(b)
           /\ (\A k \in 1..Len(b) : b[k] \in AsciiWhitespace) => exc = "none"

\* a body of a line feed, a space and '<' was classified as markup
C14_Witness ==
    /\ pc = "sniffed"
    /\ in_served[1].content.bytes = <<"LF", " ", "<">>
    /\ exc = "RuntimeError:html"

\* ------------------------------------------------------- the fallback loop
\* the positions of the Retrieve calls among the requests
Gets == {k \in DOMAIN calls : calls[k][1] = "GET"}

\* what is left of the run: the statements of main() in reverse order, the
\* iterations left of the two loops counted
Rank ==
    CASE pc = "done" -> 0
      [] pc = "finish" -> 1
      [] pc = "place" -> 2 + (3 - place_idx)
      [] pc = "in_size" -> 5 + 3 * (2 - in_idx)
      [] pc = "in_get" -> 6 + 3 * (2 - in_idx)
      [] pc = "in_head" -> 7 + 3 * (2 - in_idx)
      [] pc = "extract" -> 11
      [] pc = "zip_size" -> 12
      [] pc = "zip_get" -> 13
      [] pc = "zip_head" -> 14
      [] pc = "session" -> 15
      [] pc = "setup" -> 16
      [] pc = "start" -> 17

\* C16: the primary standalone URL is retrieved before the fallback one, the
\* fallback one only after the primary attempt failed and never after a
\* success; no URL is retrieved twice, so there are at most 3 Retrieve calls;
\* every step brings the run closer to its end, a run that has not ended can
\* take a step, and a run that has ended has succeeded (0) or aborted (1, 2).
C16_FallbackOrderBounded ==
    /\ [](/\ Cardinality(Gets) <= 3
          /\ \A i, j \in Gets : calls[i][2] = calls[j][2] => i = j
          /\ \A k \in Gets :
                calls[k][2] = "in_txt_upper" =>
                    /\ "in_txt_lower" \in in_failed
                    /\ \E j \in Gets : j < k /\ calls[j][2] = "in_txt_lower"
          /\ in_ok => Len(in_served) = 1 /\ in_served[1].url \notin in_failed
          /\ pc = "done" => exit_code \in {0, 1, 2}
          /\ pc # "done" => exit_code = Running /\ ENABLED Next)
    /\ [][/\ Rank' < Rank
          /\ in_ok => calls' = calls]_vars

\* three Retrieve calls were issued and the fallback URL gave the file
C16_Witness ==
    /\ pc = "done"
    /\ exit_code = 0
    /\ Cardinality(Gets) = 3
    /\ calls[Len(calls)] = <<"GET", "in_txt_upper">>
    /\ "in_txt_lower" \in in_failed

\* ------------------------------------------------- validation before rename
\* the step creates or replaces the staging file final
FinalWritten(final) ==
    /\ Exists(staging', final)
    /\ ~Exists(staging, final) \/ staging'[final] # staging[final]

\* the step renames temp to final, and temp holds the whole body served, the
\* first 512 bytes of which are not markup, and is at least minimum bytes long
ValidatedRename(temp, final, served, minimum) ==
    /\ Exists(staging, temp)
    /\ staging'[final] = staging[temp]
    /\ ~Exists(staging', temp)
    /\ served # <<>>
    /\ staging[temp] = served[1]
    /\ ~MarkupAfterWhitespace(Take(staging[temp].bytes, 512))
    /\ Len(staging[temp].bytes) >= minimum

\* C17: bq<tag>.zip and in<tag>.txt are created or replaced in staging only by
\* renaming the temp file after its Retrieve completed, its first 512 bytes
\* were not classified as markup and its size is >= the configured minimum;
\* at the size check a file of at least the minimum (the minimum itself
\* included) is renamed and a smaller one (minimum - 1 included) is not.
C17_ValidationGuardsPromotion ==
    [][/\ FinalWritten("bq.zip") =>
             ValidatedRename("bq.zip.part", "bq.zip", zip_served, min_zip_bytes)
       /\ FinalWritten("in.txt") =>
             ValidatedRename("in.txt.part", "in.txt",
                             [k \in DOMAIN in_served |-> in_served[k].content],
                             min_in_bytes)
       /\ pc = "zip_size" =>
             (FinalWritten("bq.zip") <=> Len(staging["bq.zip.part"].bytes) >= min_zip_bytes)
       /\ pc = "in_size" =>
             (FinalWritten("in.txt") <=> Len(staging["in.txt.part"].bytes) >= min_in_bytes)
      ]_vars

\* the primary body, one byte short of the minimum, was rejected and the
\* fallback body, exactly the minimum long, was renamed
C17_Witness ==
    /\ in_ok
    /\ pc = "place"
    /\ "RuntimeError:in too small" \in log_file
    /\ Exists(staging, "in.txt")
    /\ Len(staging["in.txt"].bytes) = min_in_bytes
    /\ Len(staging["bq.zip"].bytes) = min_zip_bytes

\* ----------------------------------------------------------- placement last
\* the archive is in staging under its final name, retrieved whole, not
\* markup and of at least the minimum size
ArchiveStaged ==
    /\ zip_served # <<>>
    /\ Exists(staging, "bq.zip")
    /\ staging["bq.zip"] = zip_served[1]
    /\ ~MarkupAfterWhitespace(Take(zip_served[1].bytes, 512))
    /\ Len(zip_served[1].bytes) >= min_zip_bytes

\* the member of the k-th prefix was extracted: its file holds the data of an
\* entry named for the prefix, in staging or, once moved, in the output
MemberStaged(k) ==
    LET dir == IF place_idx > k THEN output ELSE staging
    IN /\ Exists(dir, ClaimTarget[k])
       /\ \E e \in EntriesFor(zip_served[1].members, WantedPrefixes[k]) :
             dir[ClaimTarget[k]] = RawFile(zip_served[1].members[e].data)

\* one standalone attempt was retrieved, validated and renamed to in<tag>.txt
StandaloneStaged ==
    /\ in_ok
    /\ in_served # <<>>
    /\ Exists(staging, "in.txt")
    /\ staging["in.txt"] = in_served[1].content
    /\ ~MarkupAfterWhitespace(Take(in_served[1].content.bytes, 512))
    /\ Len(in_served[1].content.bytes) >= min_in_bytes

\* C18: a step changes the output directory (deletes, creates or replaces a
\* file) only when the archive has been retrieved and validated, both
\* members have been extracted into staging and one standalone attempt has
\* been retrieved, validated and renamed to in<tag>.txt in staging.
C18_PlacementLast ==
    [][output' # output =>
          /\ ArchiveStaged
          /\ extract_calls = 1
          /\ \A k \in 1..Len(WantedPrefixes) : MemberStaged(k)
          /\ StandaloneStaged
          /\ exc = "none"
          /\ exit_code = Running]_vars

\* the first iteration of the placement loop replaced a file of an earlier run
C18_Witness ==
    /\ pc = "place"
    /\ place_idx = 2
    /\ Exists(output0, "bq.txt")
    /\ output["bq.txt"] # output0["bq.txt"]
    /\ StandaloneStaged

C20_FailedRunsKeepOutput ==
    (pc = "done" /\ exit_code # 0) => output = output0


=============================================================================
